---- MODULE Spec2Model ----
(***************************************************************************)
(* Model of hermetic_build/tmp/compare_yaml.py: the comparison of two      *)
(* trees of .OwlBot-hermetic.yaml files and the recording of the per-item  *)
(* differences in the generation config's owlbot_yaml directives.          *)
(*                                                                         *)
(* Python values are modelled as follows.                                  *)
(*   str            a sequence of one-character strings                    *)
(*   Optional[T]    None is <<>>, a present value x is <<x>>               *)
(*   list           a sequence                                             *)
(*   object         a record of its attributes                             *)
(***************************************************************************)
EXTENDS Integers, Sequences, FiniteSets, TLC

VARIABLES
    pc,             \* position of the running entry point
    \* normalize_source
    source,         \* the argument
    normalized,     \* normalize_source(source), once computed
    renormalized,   \* normalize_source(normalize_source(source)), once computed
    \* generate_diff.diff_lists
    key,            \* the list key
    list1,          \* Optional list of the first config
    list2,          \* Optional list of the second config
    library_name,   \* the library whose directive is updated
    diff_lines,     \* the lines generated by the last diff
    raised,         \* whether the entry point ended in an uncaught exception
    \* generation_config.libraries: library name -> owlbot_yaml directive
    libraries,      \* as it is now
    libraries0,     \* as it was loaded
    \* OwlBotConfig.__eq__
    config1,
    config2,
    equal,          \* config1 == config2, once computed
    \* read_yaml_as_object
    data,           \* the file: what opening and yaml.safe_load make of it
    parsed,         \* what read_yaml_as_object returned, once it has
    \* update_owlbot_config
    owlbot_config,  \* the directive the calls thread through
    owlbot_config0, \* the directive before the first call
    calls,          \* the (operation, key, item) of the calls made so far
    \* main / compare_owlbot_yaml_files
    args,           \* the parsed command line
    tree,           \* the walk: the matching files under input_dir, in order
    idx,            \* the file of the walk that is processed next
    diff_files,
    total_files,
    stdout,         \* what has been printed
    written         \* config_augmented.yaml, once written

normVars == <<source, normalized, renormalized>>

diffVars == <<key, list1, list2, library_name, diff_lines>>

regVars == <<libraries, libraries0>>

eqVars == <<config1, config2, equal>>

parseVars == <<data, parsed>>

updVars == <<owlbot_config, owlbot_config0, calls>>

mainVars == <<args, tree, idx, diff_files, total_files, stdout, written>>

\* the groups of variables an entry point does not use keep this value
NormIdle == source = <<>> /\ normalized = <<>> /\ renormalized = <<>>

DiffIdle ==
    key = <<>> /\ list1 = <<>> /\ list2 = <<>> /\ library_name = <<>> /\ diff_lines = <<>>

RegIdle == libraries = <<>> /\ libraries0 = <<>>

EqIdle == config1 = <<>> /\ config2 = <<>> /\ equal = <<>>

ParseIdle == data = <<>> /\ parsed = <<>>

UpdIdle == owlbot_config = <<>> /\ owlbot_config0 = <<>> /\ calls = <<>>

MainIdle ==
    /\ args = <<>> /\ tree = <<>> /\ idx = 0 /\ diff_files = <<>>
    /\ total_files = 0 /\ stdout = <<>> /\ written = <<>>

vars == <<pc, raised, normVars, diffVars, regVars, eqVars, parseVars, updVars, mainVars>>

----------------------------------------------------------------------------
(* Python values *)

None == <<>>

Some(x) == <<x>>

IsNone(o) == o = <<>>

Val(o) == o[1]

\* bool(x) of an Optional[list]: None and the empty list are falsy
Truthy(o) == ~IsNone(o) /\ Val(o) # <<>>

----------------------------------------------------------------------------
(* Strings *)

\* ord(c) of the characters that occur in the model's strings
Ord(c) ==
    CASE c = "*" -> 42
      [] c = "-" -> 45
      [] c = "." -> 46
      [] c = "/" -> 47
      [] c = "1" -> 49
      [] c = "\\" -> 92
      [] c = "a" -> 97
      [] c = "b" -> 98
      [] c = "c" -> 99
      [] c = "d" -> 100
      [] c = "f" -> 102
      [] c = "j" -> 106
      [] c = "m" -> 109
      [] c = "o" -> 111
      [] c = "p" -> 112
      [] c = "r" -> 114
      [] c = "t" -> 116
      [] c = "v" -> 118
      [] c = "x" -> 120
      [] c = "y" -> 121

\* str.__lt__: lexicographic by code point, a proper prefix is smaller
RECURSIVE StrLt(_, _)
StrLt(a, b) ==
    IF b = <<>> THEN FALSE
    ELSE IF a = <<>> THEN TRUE
    ELSE IF Head(a) = Head(b) THEN StrLt(Tail(a), Tail(b))
    ELSE Ord(Head(a)) < Ord(Head(b))

\* s.startswith(prefix)
StartsWith(s, prefix) ==
    /\ Len(s) >= Len(prefix)
    /\ SubSeq(s, 1, Len(prefix)) = prefix

\* old in s
RECURSIVE Contains(_, _)
Contains(s, old) ==
    IF Len(s) < Len(old) THEN FALSE
    ELSE StartsWith(s, old) \/ Contains(Tail(s), old)

\* str.replace(old, new): the non-overlapping occurrences, left to right
RECURSIVE Replace(_, _, _)
Replace(s, old, new) ==
    IF Len(s) < Len(old) THEN s
    ELSE IF StartsWith(s, old)
         THEN new \o Replace(SubSeq(s, Len(old) + 1, Len(s)), old, new)
         ELSE <<Head(s)>> \o Replace(Tail(s), old, new)

VDigit == <<"v", "\\", "d">>

VDotStar == <<"v", ".", "*">>

VStar == <<"v", "*">>

\* A plausible slip: the second pattern is rewritten to the first one
normalize_source_unstable(src) ==
    Replace(Replace(src, VDigit, VStar), VDotStar, VDigit)

normalize_source(src) ==
    Replace(Replace(src, VDigit, VStar), VDotStar, VStar)

----------------------------------------------------------------------------
(* DeepCopyRegexItem and the items of the string lists *)

ListKeys == {"deep_copy_regex", "deep_remove_regex", "deep_preserve_regex"}

DeepCopyRegexItem(src, dst) == [source |-> src, dest |-> dst]

\* A plausible slip: the sources are compared as written
DeepCopyRegexItem_eq_raw(a, b) ==
    a.source = b.source /\ a.dest = b.dest

DeepCopyRegexItem_eq(a, b) ==
    /\ normalize_source(a.source) = normalize_source(b.source)
    /\ a.dest = b.dest

DeepCopyRegexItem_lt(a, b) ==
    IF StrLt(normalize_source(a.source), normalize_source(b.source)) THEN TRUE
    ELSE IF normalize_source(a.source) = normalize_source(b.source)
         THEN StrLt(a.dest, b.dest)
         ELSE FALSE

\* a == b for two items of the list of `key`: the items of deep_copy_regex are
\* DeepCopyRegexItem objects, those of the other two lists are str
ItemEq(k, a, b) ==
    IF k = "deep_copy_regex" THEN DeepCopyRegexItem_eq(a, b) ELSE a = b

\* a < b for two items of the list of `key`
ItemLt(k, a, b) ==
    IF k = "deep_copy_regex" THEN DeepCopyRegexItem_lt(a, b) ELSE StrLt(a, b)

\* item in l
ListIn(k, item, l) == \E i \in 1..Len(l) : ItemEq(k, item, l[i])

\* l1 == l2 for two lists
ListEq(k, l1, l2) ==
    /\ Len(l1) = Len(l2)
    /\ \A i \in 1..Len(l1) : ItemEq(k, l1[i], l2[i])

RECURSIVE InsertSorted(_, _, _)
InsertSorted(k, x, s) ==
    IF s = <<>> THEN <<x>>
    ELSE IF ItemLt(k, x, Head(s)) THEN <<x>> \o s
    ELSE <<Head(s)>> \o InsertSorted(k, x, Tail(s))

\* sorted(l): stable, by __lt__
RECURSIVE sorted(_, _)
sorted(k, l) ==
    IF l = <<>> THEN <<>>
    ELSE InsertSorted(k, l[Len(l)], sorted(k, SubSeq(l, 1, Len(l) - 1)))

----------------------------------------------------------------------------
(* OwlBotConfig and its equality *)

DockerConfig(img) == [image |-> img]

DockerConfig_eq(d1, d2) ==
    IF IsNone(d1) \/ IsNone(d2) THEN IsNone(d1) /\ IsNone(d2)
    ELSE Val(d1).image = Val(d2).image

OwlBotConfig(api, hash, dock, sq, copy, remove, preserve) ==
    [api_name |-> api,
     begin_after_commit_hash |-> hash,
     docker |-> dock,
     squash |-> sq,
     deep_copy_regex |-> copy,
     deep_remove_regex |-> remove,
     deep_preserve_regex |-> preserve]

\* A plausible slip: the lists are compared in the order they were written
compare_lists_ordered(k, l1, l2) ==
    IF IsNone(l1) /\ IsNone(l2) THEN TRUE
    ELSE IF IsNone(l1) \/ IsNone(l2) THEN FALSE
    ELSE IF Val(l1) = <<>> \/ Val(l2) = <<>>
         THEN Val(l1) = <<>> /\ Val(l2) = <<>>
    ELSE ListEq(k, Val(l1), Val(l2))

\* A plausible slip: a falsy list on either side ends the comparison unequal
compare_lists_falsy(k, l1, l2) ==
    IF IsNone(l1) /\ IsNone(l2) THEN TRUE
    ELSE IF IsNone(l1) \/ IsNone(l2) THEN FALSE
    ELSE IF Val(l1) = <<>> \/ Val(l2) = <<>> THEN FALSE
    ELSE ListEq(k, sorted(k, Val(l1)), sorted(k, Val(l2)))

compare_lists(k, l1, l2) ==
    IF IsNone(l1) /\ IsNone(l2) THEN TRUE
    ELSE IF IsNone(l1) \/ IsNone(l2) THEN FALSE
    ELSE IF Val(l1) = <<>> \/ Val(l2) = <<>>
         THEN Val(l1) = <<>> /\ Val(l2) = <<>>
    ELSE ListEq(k, sorted(k, Val(l1)), sorted(k, Val(l2)))

OwlBotConfig_eq(self, other) ==
    /\ self.api_name = other.api_name
    /\ self.begin_after_commit_hash = other.begin_after_commit_hash
    /\ DockerConfig_eq(self.docker, other.docker)
    /\ self.squash = other.squash
    /\ compare_lists("deep_copy_regex", self.deep_copy_regex, other.deep_copy_regex)
    /\ compare_lists("deep_remove_regex", self.deep_remove_regex, other.deep_remove_regex)
    /\ compare_lists("deep_preserve_regex", self.deep_preserve_regex,
                     other.deep_preserve_regex)

----------------------------------------------------------------------------
(* The owlbot_yaml directive of a library and its update *)

OwlbotYamlAdditionRemove ==
    [deep_copy_regex |-> None, deep_remove_regex |-> None, deep_preserve_regex |-> None]

OwlbotYamlConfig == [addition |-> None, remove |-> None]

\* A plausible slip: an item the list already holds is not appended again
AppendItem_dedup(sub, k, item) ==
    IF k \in ListKeys
    THEN [sub EXCEPT ![k] =
            IF Truthy(@) /\ \E i \in 1..Len(Val(@)) : Val(@)[i] = item
            THEN @
            ELSE Some(Append(IF Truthy(@) THEN Val(@) ELSE <<>>, item))]
    ELSE sub

\* sub.<key> = sub.<key> or []; sub.<key>.append(item), for the three keys the
\* code tests for; any other key leaves the sub-object as it is
AppendItem(sub, k, item) ==
    IF k \in ListKeys
    THEN [sub EXCEPT ![k] = Some(Append(IF Truthy(@) THEN Val(@) ELSE <<>>, item))]
    ELSE sub

\* the directive after the call (the object returned is never None)
update_owlbot_config(operation, k, item, directive) ==
    LET config == IF IsNone(directive) THEN OwlbotYamlConfig ELSE Val(directive)
        \* `not config.addition`: an OwlbotYamlAdditionRemove object is always truthy
        sub(o) == IF IsNone(o) THEN OwlbotYamlAdditionRemove ELSE Val(o)
    IN IF operation = "addition"
       THEN Some([config EXCEPT !.addition = Some(AppendItem(sub(@), k, item))])
       ELSE IF operation = "remove"
       THEN Some([config EXCEPT !.remove = Some(AppendItem(sub(@), k, item))])
       ELSE Some(config)

----------------------------------------------------------------------------
(* generate_diff *)

\* a line f"{sign} {key}: {value}"; `form` tells what was formatted: a scalar
\* field, an item of a list, or a whole list
DiffLine(sign, k, form, value) ==
    [sign |-> sign, key |-> k, form |-> form, value |-> value]

\* the state a run of generate_diff works on: the lines so far, the
\* generation config's libraries, and whether an exception has been raised
DiffState(lines, libs, exc) == [diff_lines |-> lines, libraries |-> libs, raised |-> exc]

\* one pass of the body of `for item in sorted_list: if item not in other`
\* over the rest of the list; generation_config.libraries[library_name] raises
\* for a library the config does not hold, after the line was appended
RECURSIVE diff_items(_, _, _, _, _, _)
diff_items(operation, k, items, other, lib, st) ==
    IF items = <<>> \/ st.raised THEN st
    ELSE LET item == Head(items)
             sign == IF operation = "remove" THEN "-" ELSE "+"
             lines == Append(st.diff_lines, DiffLine(sign, k, "item", item))
             after ==
                 IF ListIn(k, item, other) THEN st
                 ELSE IF lib \notin DOMAIN st.libraries
                      THEN DiffState(lines, st.libraries, TRUE)
                 ELSE DiffState(lines,
                                [st.libraries EXCEPT ![lib] =
                                    update_owlbot_config(operation, k, item, @)],
                                FALSE)
         IN diff_items(operation, k, Tail(items), other, lib, after)

\* A plausible slip: the branch for one missing list records the items of the
\* list that is present
diff_lists_eager(k, l1, l2, lib, st) ==
    IF st.raised THEN st
    ELSE IF IsNone(l1) /\ IsNone(l2) THEN st
    ELSE IF IsNone(l1) \/ IsNone(l2)
         THEN LET present == IF IsNone(l1) THEN Val(l2) ELSE Val(l1)
                  operation == IF IsNone(l1) THEN "addition" ELSE "remove"
                  recorded == diff_items(operation, k, present, <<>>, lib, st)
              IN [recorded EXCEPT !.diff_lines =
                     st.diff_lines \o <<DiffLine("-", k, "list", l1),
                                        DiffLine("+", k, "list", l2)>>]
    ELSE LET sorted_list1 == sorted(k, Val(l1))
             sorted_list2 == sorted(k, Val(l2))
         IN diff_items("addition", k, sorted_list2, sorted_list1, lib,
               diff_items("remove", k, sorted_list1, sorted_list2, lib, st))

diff_lists(k, l1, l2, lib, st) ==
    IF st.raised THEN st
    ELSE IF IsNone(l1) /\ IsNone(l2) THEN st
    ELSE IF IsNone(l1) \/ IsNone(l2)
         THEN [st EXCEPT !.diff_lines =
                  @ \o <<DiffLine("-", k, "list", l1), DiffLine("+", k, "list", l2)>>]
    ELSE LET sorted_list1 == sorted(k, Val(l1))
             sorted_list2 == sorted(k, Val(l2))
         IN diff_items("addition", k, sorted_list2, sorted_list1, lib,
               diff_items("remove", k, sorted_list1, sorted_list2, lib, st))

\* the lines of one scalar field
ScalarLines(field, v1, v2, differ) ==
    IF differ
    THEN <<DiffLine("-", field, "scalar", v1), DiffLine("+", field, "scalar", v2)>>
    ELSE <<>>

generate_diff(c1, c2, lib, libs) ==
    LET scalars ==
            ScalarLines("api_name", c1.api_name, c2.api_name,
                        c1.api_name # c2.api_name)
            \o ScalarLines("begin_after_commit_hash", c1.begin_after_commit_hash,
                           c2.begin_after_commit_hash,
                           c1.begin_after_commit_hash # c2.begin_after_commit_hash)
            \o ScalarLines("docker", c1.docker, c2.docker,
                           ~DockerConfig_eq(c1.docker, c2.docker))
            \o ScalarLines("squash", c1.squash, c2.squash,
                           c1.squash # c2.squash)
        st0 == DiffState(scalars, libs, FALSE)
        st1 == diff_lists("deep_copy_regex", c1.deep_copy_regex,
                          c2.deep_copy_regex, lib, st0)
        st2 == diff_lists("deep_remove_regex", c1.deep_remove_regex,
                          c2.deep_remove_regex, lib, st1)
    IN diff_lists("deep_preserve_regex", c1.deep_preserve_regex,
                  c2.deep_preserve_regex, lib, st2)

----------------------------------------------------------------------------
(* read_yaml_as_object *)

\* A file is [kind, doc]: kind "missing" (open raises FileNotFoundError),
\* "invalid" (yaml.safe_load raises YAMLError) or "yaml"; doc is the mapping
\* safe_load returns, a function from the keys the document holds to their
\* values, None for a YAML null and Some(v) otherwise.  A nested mapping is a
\* function of the same kind with plain values.
File(kind, doc) == [kind |-> kind, doc |-> doc]

EmptyMapping == [x \in {} |-> None]

\* data.get(name)
Get(doc, name) == IF name \in DOMAIN doc THEN doc[name] ELSE None

\* bool(v) of a value returned by data.get: None, [] and {} are falsy
Falsy(v) == IsNone(v) \/ Val(v) = <<>> \/ Val(v) = EmptyMapping

\* the YAML key of each list field
YamlKey(k) ==
    CASE k = "deep_copy_regex" -> "deep-copy-regex"
      [] k = "deep_remove_regex" -> "deep-remove-regex"
      [] k = "deep_preserve_regex" -> "deep-preserve-regex"

\* the list comprehension over deep_copy_regex_data, None when it is falsy
CopyRegexOf(deep_copy_regex_data) ==
    IF Falsy(deep_copy_regex_data) THEN None
    ELSE Some([i \in 1..Len(Val(deep_copy_regex_data)) |->
                 DeepCopyRegexItem(Val(deep_copy_regex_data)[i]["source"],
                                   Val(deep_copy_regex_data)[i]["dest"])])

\* whether building the object raises: docker_data["image"], item["source"]
\* or item["dest"] on a mapping without that key
BuildRaises(doc) ==
    \/ /\ ~Falsy(Get(doc, "docker"))
       /\ "image" \notin DOMAIN Val(Get(doc, "docker"))
    \/ /\ ~Falsy(Get(doc, "deep-copy-regex"))
       /\ \E i \in 1..Len(Val(Get(doc, "deep-copy-regex"))) :
             {"source", "dest"} \ DOMAIN Val(Get(doc, "deep-copy-regex"))[i] # {}

\* the OwlBotConfig read from a file, None when the file cannot be read
read_yaml_as_object(file) ==
    IF file.kind # "yaml" THEN None
    ELSE IF file.doc = EmptyMapping THEN None
    ELSE IF BuildRaises(file.doc) THEN None
    ELSE LET docker_data == Get(file.doc, "docker")
             docker == IF Falsy(docker_data) THEN None
                       ELSE Some(DockerConfig(Val(docker_data)["image"]))
         IN Some(OwlBotConfig(Get(file.doc, "api-name"),
                              Get(file.doc, "begin-after-commit-hash"),
                              docker,
                              Get(file.doc, "squash"),
                              CopyRegexOf(Get(file.doc, "deep-copy-regex")),
                              Get(file.doc, "deep-remove-regex"),
                              Get(file.doc, "deep-preserve-regex")))

----------------------------------------------------------------------------
(* compare_owlbot_yaml_files and main *)

JavaPrefix == <<"j", "a", "v", "a", "-">>

\* A relative path is the sequence of the directory names that lead to the
\* file; the library name is the last of them without a leading "java-",
\* and "" for a file that lies in no directory
extract_library_name_from_path(relative_path) ==
    IF relative_path = <<>> THEN <<>>
    ELSE LET library == relative_path[Len(relative_path)]
         IN IF StartsWith(library, JavaPrefix)
            THEN SubSeq(library, Len(JavaPrefix) + 1, Len(library))
            ELSE library

\* what the loop has built up: diff_files, total_files, the libraries of the
\* generation config, the output, and whether an exception has been raised
WalkState(files, total, libs, out, exc) ==
    [diff_files |-> files, total_files |-> total, libraries |-> libs, stdout |-> out,
     raised |-> exc]

\* the messages read_yaml_as_object prints for a file that cannot be read
ReadErrors(file) ==
    IF file.kind = "missing" THEN <<[msg |-> "Error: File not found"]>>
    ELSE IF file.kind = "invalid" THEN <<[msg |-> "Error parsing YAML"]>>
    ELSE IF file.doc # EmptyMapping /\ BuildRaises(file.doc)
         THEN <<[msg |-> "Error creating object"]>>
    ELSE <<>>

\* A plausible slip: a pair that cannot be compared counts as a difference
compare_file_strict(entry, output_diff, st) ==
    LET counted == [st EXCEPT !.total_files = @ + 1]
    IN IF entry.original.kind = "missing"
          \/ IsNone(read_yaml_as_object(entry.input))
          \/ IsNone(read_yaml_as_object(entry.original))
       THEN [counted EXCEPT
                !.diff_files = Append(@, entry.relative_path),
                !.stdout = Append(@, [msg |-> "Warning", path |-> entry.relative_path])]
       ELSE counted

\* the body of the loop for one matching file of the walk
compare_file(entry, output_diff, st) ==
    LET counted == [st EXCEPT !.total_files = @ + 1]
        c1 == read_yaml_as_object(entry.input)
        c2 == read_yaml_as_object(entry.original)
        read == [counted EXCEPT
                    !.stdout = @ \o ReadErrors(entry.input) \o ReadErrors(entry.original)]
    IN IF entry.original.kind = "missing"
       THEN [counted EXCEPT
                !.stdout = Append(@, [msg |-> "Warning: Corresponding original file not found",
                                      path |-> entry.relative_path])]
       ELSE IF IsNone(c1) \/ IsNone(c2)
       THEN [read EXCEPT
                !.stdout = Append(@, [msg |-> "Warning: Could not compare YAML files",
                                      path |-> entry.relative_path])]
       ELSE IF OwlBotConfig_eq(Val(c1), Val(c2)) THEN read
       ELSE IF ~output_diff
       THEN [read EXCEPT !.diff_files = Append(@, entry.relative_path)]
       ELSE LET d == generate_diff(Val(c1), Val(c2),
                                   extract_library_name_from_path(entry.relative_path),
                                   read.libraries)
                header == [msg |-> "YAML Differences in", path |-> entry.relative_path]
            IN WalkState(Append(read.diff_files, entry.relative_path),
                         read.total_files,
                         d.libraries,
                         IF d.raised THEN Append(read.stdout, header)
                         ELSE Append(read.stdout, header)
                              \o [i \in 1..Len(d.diff_lines) |->
                                     [msg |-> "diff", line |-> d.diff_lines[i]]],
                         d.raised)

\* what is printed after the loop
Summary(files, total) ==
    (IF files # <<>>
     THEN <<[msg |-> "Files with YAML differences", files |-> files],
            [msg |-> "Total YAML differences found", count |-> Len(files)]>>
     ELSE <<[msg |-> "No YAML differences found."]>>)
    \o <<[msg |-> "Total files compared", count |-> total]>>

----------------------------------------------------------------------------
(* normalize_source applied to bounded strings *)

MaxStrLen == 4

NormAlphabet == {"v", "\\", "d", ".", "*", "1"}

RECURSIVE StringsUpTo(_, _)
StringsUpTo(alphabet, n) ==
    IF n = 0 THEN {<<>>}
    ELSE LET shorter == StringsUpTo(alphabet, n - 1)
         IN shorter \cup {<<c>> \o s : c \in alphabet, s \in {t \in shorter : Len(t) = n - 1}}

notNormVars == <<diffVars, regVars, eqVars, parseVars, updVars, mainVars>>

NotNormIdle == DiffIdle /\ RegIdle /\ EqIdle /\ ParseIdle /\ UpdIdle /\ MainIdle

InitNormalize ==
    /\ pc = "normalize"
    /\ source \in StringsUpTo(NormAlphabet, MaxStrLen)
    /\ normalized = None
    /\ renormalized = None
    /\ raised = FALSE
    /\ NotNormIdle

Normalize ==
    /\ pc = "normalize"
    /\ normalized' = Some(normalize_source(source))
    /\ pc' = "renormalize"
    /\ UNCHANGED <<source, renormalized, raised, notNormVars>>

Renormalize ==
    /\ pc = "renormalize"
    /\ renormalized' = Some(normalize_source(Val(normalized)))
    /\ pc' = "done"
    /\ UNCHANGED <<source, normalized, raised, notNormVars>>

NextNormalize == Normalize \/ Renormalize

SpecNormalize == InitNormalize /\ [][NextNormalize]_vars

\* C8: normalize_source is idempotent on every string; it maps v\d and v.*
\* to v*, and returns a string that holds neither pattern unchanged.
NormalizeIdempotent ==
    /\ pc = "done" => Val(renormalized) = Val(normalized)
    /\ pc # "normalize" =>
        /\ source = VDigit => Val(normalized) = VStar
        /\ source = VDotStar => Val(normalized) = VStar
        /\ (~Contains(source, VDigit) /\ ~Contains(source, VDotStar))
               => Val(normalized) = source

\* a string that normalization changes has been normalized twice
NormalizeWitness ==
    /\ pc = "done"
    /\ source = <<"v", "v", "\\", "d">>
    /\ Val(normalized) = <<"v", "v", "*">>
    /\ Val(renormalized) = Val(normalized)

----------------------------------------------------------------------------
(* diff_lists applied to bounded lists and a starting registry *)

MaxListLen == 2

\* v\d and v.* are two spellings of the same source, v1 is another source
CopyItems ==
    {DeepCopyRegexItem(VDigit, <<"x">>), DeepCopyRegexItem(VDotStar, <<"x">>),
     DeepCopyRegexItem(<<"v", "1">>, <<"x">>), DeepCopyRegexItem(VDotStar, <<"y">>)}

StrItems == {<<"a">>, <<"b">>, <<"c">>}

ItemsOf(k) == IF k = "deep_copy_regex" THEN CopyItems ELSE StrItems

RECURSIVE ListsUpTo(_, _)
ListsUpTo(items, n) ==
    IF n = 0 THEN {<<>>}
    ELSE LET shorter == ListsUpTo(items, n - 1)
         IN shorter \cup {Append(l, x) : x \in items, l \in {t \in shorter : Len(t) = n - 1}}

\* library names: the loaded generation config holds foo and no other
Foo == <<"f", "o", "o">>

Bar == <<"b", "a", "r">>

OptionalLists(k) == {None} \cup {Some(l) : l \in ListsUpTo(ItemsOf(k), MaxListLen)}

\* the directives a library of the loaded generation config may hold for `k`:
\* none, an empty one, and one that already records an item
StartDirectives(k) ==
    LET x == CHOOSE i \in ItemsOf(k) : TRUE
    IN {None,
        Some(OwlbotYamlConfig),
        Some([addition |-> None,
              remove |-> Some([OwlbotYamlAdditionRemove EXCEPT ![k] = Some(<<x>>)])]),
        Some([addition |-> Some([OwlbotYamlAdditionRemove EXCEPT ![k] = Some(<<x>>)]),
              remove |-> Some(OwlbotYamlAdditionRemove)])}

\* the list of `k` under `operation` in a directive, [] when any part is absent
Recorded(directive, operation, k) ==
    IF IsNone(directive) THEN <<>>
    ELSE IF IsNone(Val(directive)[operation]) THEN <<>>
    ELSE IF IsNone(Val(Val(directive)[operation])[k]) THEN <<>>
    ELSE Val(Val(Val(directive)[operation])[k])

notDiffVars == <<normVars, eqVars, parseVars, updVars, mainVars>>

InitDiff ==
    /\ pc = "diff_lists"
    /\ key \in ListKeys
    /\ list1 \in OptionalLists(key)
    /\ list2 \in OptionalLists(key)
    /\ library_name \in {Foo, Bar}
    /\ \E d \in StartDirectives(key) : libraries = [l \in {Foo} |-> d]
    /\ libraries0 = libraries
    /\ diff_lines = <<>>
    /\ raised = FALSE
    /\ NormIdle /\ EqIdle /\ ParseIdle /\ UpdIdle /\ MainIdle

DiffLists ==
    /\ pc = "diff_lists"
    /\ LET st == diff_lists(key, list1, list2, library_name,
                            DiffState(<<>>, libraries, FALSE))
       IN /\ diff_lines' = st.diff_lines
          /\ libraries' = st.libraries
          /\ raised' = st.raised
          /\ pc' = IF st.raised THEN "raised" ELSE "returned"
    /\ UNCHANGED <<key, list1, list2, library_name, libraries0, notDiffVars>>

NextDiff == DiffLists

SpecDiff == InitDiff /\ [][NextDiff]_vars

\* the equivalence of two items of the list of `k`, as the specification
\* words it
Equivalent(k, a, b) ==
    IF k = "deep_copy_regex"
    THEN /\ Replace(Replace(a.source, VDigit, VStar), VDotStar, VStar)
            = Replace(Replace(b.source, VDigit, VStar), VDotStar, VStar)
         /\ a.dest = b.dest
    ELSE a = b

\* the items of sorted(l) that have no equivalent in `other`, in order
Unmatched(k, l, other) ==
    LET Alone(x) == \A i \in 1..Len(other) : ~Equivalent(k, x, other[i])
    IN SelectSeq(sorted(k, l), Alone)

ItemLines(sign, k, items) == [i \in 1..Len(items) |-> DiffLine(sign, k, "item", items[i])]

\* the directive differs from the loaded one by `removed` and `added` at the
\* end of the two lists of `k`, and in nothing else
RecordedExactly(lib, k, removed, added) ==
    /\ Recorded(libraries[lib], "remove", k) = Recorded(libraries0[lib], "remove", k) \o removed
    /\ Recorded(libraries[lib], "addition", k)
           = Recorded(libraries0[lib], "addition", k) \o added
    /\ \A other \in ListKeys \ {k}, operation \in {"remove", "addition"} :
           Recorded(libraries[lib], operation, other)
               = Recorded(libraries0[lib], operation, other)

\* C1: for two present lists, diff_lists emits a '-' line and records a
\* removal for each item of sorted(list1) without an equivalent in list2, a '+'
\* line and an addition for each item of sorted(list2) without an equivalent
\* in list1, and nothing for an item that has an equivalent in both.
DiffListsPerItem ==
    (/\ pc = "returned"
     /\ ~IsNone(list1) /\ ~IsNone(list2)
     /\ library_name \in DOMAIN libraries0)
    => LET removed == Unmatched(key, Val(list1), Val(list2))
           added == Unmatched(key, Val(list2), Val(list1))
       IN /\ diff_lines = ItemLines("-", key, removed) \o ItemLines("+", key, added)
          /\ RecordedExactly(library_name, key, removed, added)

\* the example of the specification, and two spellings of one source that
\* produce no line next to an item that does
DiffListsWitness ==
    /\ pc = "returned"
    /\ \/ /\ key = "deep_remove_regex"
          /\ list1 = Some(<<<<"a">>, <<"c">>>>)
          /\ list2 = Some(<<<<"b">>, <<"c">>>>)
          /\ Len(diff_lines) = 2
          /\ Recorded(libraries[Foo], "remove", key)
                 = Recorded(libraries0[Foo], "remove", key) \o <<<<"a">>>>
       \/ /\ key = "deep_copy_regex"
          /\ list1 = Some(<<DeepCopyRegexItem(VDigit, <<"x">>),
                            DeepCopyRegexItem(<<"v", "1">>, <<"x">>)>>)
          /\ list2 = Some(<<DeepCopyRegexItem(VDotStar, <<"x">>)>>)
          /\ Len(diff_lines) = 1

\* C9: with exactly one of the two lists None, diff_lists emits the two
\* lines '- key: <list1>' and '+ key: <list2>' and leaves the registry as it was.
DiffListsOneNone ==
    (pc # "diff_lists" /\ IsNone(list1) # IsNone(list2))
    => /\ pc = "returned"
       /\ diff_lines = <<DiffLine("-", key, "list", list1), DiffLine("+", key, "list", list2)>>
       /\ libraries = libraries0

\* a non-empty list against a missing one has been diffed
DiffListsOneNoneWitness ==
    /\ pc = "returned"
    /\ IsNone(list1) /\ ~IsNone(list2) /\ Len(Val(list2)) = MaxListLen
    /\ Len(diff_lines) = 2
    /\ libraries = libraries0

----------------------------------------------------------------------------
(* OwlBotConfig.__eq__ applied to bounded pairs of records *)

ApiNames == {None, Some(<<"a">>)}

CommitHashes == {None, Some(<<"c">>)}

Dockers == {None, Some(DockerConfig(<<"d">>))}

Squashes == {None, Some(TRUE)}

\* records that differ in any subset of the seven fields, with short lists
SmallConfigs ==
    {OwlBotConfig(api, hash, dock, sq, copy, remove, preserve) :
        api \in ApiNames, hash \in CommitHashes, dock \in Dockers, sq \in Squashes,
        copy \in {None, Some(<<DeepCopyRegexItem(VDigit, <<"x">>)>>)},
        remove \in {None, Some(<<>>)},
        preserve \in {Some(<<>>), Some(<<<<"a">>>>)}}

\* records that differ in the list of one key only, the list ranging over
\* every list up to MaxListLen
ConfigsVarying(k) ==
    {[OwlBotConfig(Some(<<"a">>), None, None, Some(TRUE), None, None, None)
         EXCEPT ![k] = l] : l \in OptionalLists(k)}

InitEq ==
    /\ pc = "eq"
    /\ \/ config1 \in SmallConfigs /\ config2 \in SmallConfigs
       \/ \E k \in ListKeys : config1 \in ConfigsVarying(k) /\ config2 \in ConfigsVarying(k)
    /\ equal = None
    /\ raised = FALSE
    /\ NormIdle /\ DiffIdle /\ RegIdle /\ ParseIdle /\ UpdIdle /\ MainIdle

Eq ==
    /\ pc = "eq"
    /\ equal' = Some(OwlBotConfig_eq(config1, config2))
    /\ pc' = "returned"
    /\ UNCHANGED <<config1, config2, raised, normVars, diffVars, regVars, parseVars,
                   updVars, mainVars>>

NextEq == Eq

SpecEq == InitEq /\ [][NextEq]_vars

\* the number of items of l equivalent to x
RECURSIVE CountEquivalent(_, _, _)
CountEquivalent(k, x, l) ==
    IF l = <<>> THEN 0
    ELSE (IF Equivalent(k, x, Head(l)) THEN 1 ELSE 0) + CountEquivalent(k, x, Tail(l))

\* the two lists hold the same items, whatever their order
SameItems(k, l1, l2) ==
    /\ Len(l1) = Len(l2)
    /\ \A i \in 1..Len(l1) : CountEquivalent(k, l1[i], l1) = CountEquivalent(k, l1[i], l2)

\* the comparison of one list field, as the specification words it
ListsEquivalent(k, l1, l2) ==
    IF IsNone(l1) /\ IsNone(l2) THEN TRUE
    ELSE IF IsNone(l1) # IsNone(l2) THEN FALSE
    ELSE IF Val(l1) = <<>> \/ Val(l2) = <<>> THEN Val(l1) = <<>> /\ Val(l2) = <<>>
    ELSE SameItems(k, Val(l1), Val(l2))

\* C2: two records are equal exactly when the four scalar fields are equal
\* and each list field is equivalent: None only to None, an empty list only
\* to an empty list, otherwise the same items regardless of order.
EqIsFieldwise ==
    pc = "returned" =>
        Val(equal) = (/\ config1.api_name = config2.api_name
                      /\ config1.begin_after_commit_hash = config2.begin_after_commit_hash
                      /\ config1.docker = config2.docker
                      /\ config1.squash = config2.squash
                      /\ \A k \in ListKeys : ListsEquivalent(k, config1[k], config2[k]))

\* two records whose copy lists are permutations of each other, one source
\* spelled differently, have compared equal
EqWitness ==
    /\ pc = "returned"
    /\ config1.deep_copy_regex = Some(<<DeepCopyRegexItem(VDigit, <<"x">>),
                                        DeepCopyRegexItem(<<"v", "1">>, <<"x">>)>>)
    /\ config2.deep_copy_regex = Some(<<DeepCopyRegexItem(<<"v", "1">>, <<"x">>),
                                        DeepCopyRegexItem(VDotStar, <<"x">>)>>)
    /\ Val(equal) = TRUE

----------------------------------------------------------------------------
(* update_owlbot_config called repeatedly on one directive *)

MaxCalls == 2

Operations == {"addition", "remove"}

\* the keys of a call: the three the code tests for, and the hyphenated
\* spelling of the docstring, which no branch matches
CallKeys == ListKeys \cup {"deep-copy-regex"}

CallItems(k) ==
    IF k = "deep_copy_regex"
    THEN {DeepCopyRegexItem(VDigit, <<"x">>), DeepCopyRegexItem(VDotStar, <<"x">>)}
    ELSE IF k = "deep-copy-regex" THEN {<<"a">>}
    ELSE {<<"a">>, <<"b">>}

\* the directive before the first call: none, an empty one, one whose
\* sub-objects exist with an empty list, and one that records items
CallDirectives ==
    {None,
     Some(OwlbotYamlConfig),
     Some([addition |-> Some([OwlbotYamlAdditionRemove EXCEPT
                                 !.deep_remove_regex = Some(<<>>)]),
           remove |-> None]),
     Some([addition |-> Some(OwlbotYamlAdditionRemove),
           remove |-> Some([OwlbotYamlAdditionRemove EXCEPT
                               !.deep_remove_regex = Some(<<<<"b">>, <<"a">>>>),
                               !.deep_preserve_regex = Some(<<<<"c">>>>)])])}

InitUpdate ==
    /\ pc = "update"
    /\ owlbot_config \in CallDirectives
    /\ owlbot_config0 = owlbot_config
    /\ calls = <<>>
    /\ raised = FALSE
    /\ NormIdle /\ DiffIdle /\ RegIdle /\ EqIdle /\ ParseIdle /\ MainIdle

Update ==
    /\ pc = "update"
    /\ Len(calls) < MaxCalls
    /\ \E operation \in Operations, k \in CallKeys :
         \E item \in CallItems(k) :
            /\ owlbot_config' = update_owlbot_config(operation, k, item, owlbot_config)
            /\ calls' = Append(calls, [operation |-> operation, key |-> k, item |-> <<item>>])
    /\ UNCHANGED <<pc, owlbot_config0, raised, normVars, diffVars, regVars, eqVars,
                   parseVars, mainVars>>

NextUpdate == Update

SpecUpdate == InitUpdate /\ [][NextUpdate]_vars

\* the items of the calls made for `operation` and `k`, in call order
RECURSIVE ItemsCalled(_, _, _)
ItemsCalled(cs, operation, k) ==
    IF cs = <<>> THEN <<>>
    ELSE (IF Head(cs).operation = operation /\ Head(cs).key = k
          THEN Head(cs).item ELSE <<>>)
         \o ItemsCalled(Tail(cs), operation, k)

----------------------------------------------------------------------------
(* read_yaml_as_object applied to bounded files *)

\* the values a document may give each key: a list key holds a list, the
\* docker key a mapping or a null
YamlValues(name) ==
    CASE name = "api-name" -> <<Some(<<"a">>)>>
      [] name = "squash" -> <<Some(TRUE)>>
      [] name = "docker" ->
            <<None, Some(EmptyMapping), Some([x \in {"image"} |-> <<"d">>]),
              Some([x \in {"tag"} |-> <<"1">>])>>
      [] name = "deep-copy-regex" ->
            <<Some(<<>>),
              Some(<<[x \in {"source", "dest"} |-> IF x = "source" THEN VDigit ELSE <<"x">>]>>),
              Some(<<[x \in {"source"} |-> VDigit]>>)>>
      [] name = "deep-remove-regex" -> <<Some(<<>>), Some(<<<<"a">>>>)>>
      [] name = "deep-preserve-regex" -> <<Some(<<>>), Some(<<<<"b">>, <<"a">>>>)>>

YamlNames ==
    {"api-name", "squash", "docker", "deep-copy-regex", "deep-remove-regex",
     "deep-preserve-regex"}

\* a choice gives each key the number of one of its values, or 0 to leave it out
Choices ==
    {ch \in [YamlNames -> 0..Len(YamlValues("docker"))] :
        \A n \in YamlNames : ch[n] <= Len(YamlValues(n))}

Document(ch) == [n \in {m \in YamlNames : ch[m] > 0} |-> YamlValues(n)[ch[n]]]

InitParse ==
    /\ pc = "read"
    /\ \/ data \in {File("missing", EmptyMapping), File("invalid", EmptyMapping)}
       \/ \E ch \in Choices : data = File("yaml", Document(ch))
    /\ parsed = None
    /\ raised = FALSE
    /\ NormIdle /\ DiffIdle /\ RegIdle /\ EqIdle /\ UpdIdle /\ MainIdle

Read ==
    /\ pc = "read"
    /\ parsed' = read_yaml_as_object(data)
    /\ pc' = "returned"
    /\ UNCHANGED <<data, raised, normVars, diffVars, regVars, eqVars, updVars, mainVars>>

NextParse == Read

SpecParse == InitParse /\ [][NextParse]_vars

\* C3: in a parsed record each of the three list fields is None exactly when
\* the document left the key out, and a key given an empty list yields an
\* empty list.
ParsedNoneIffOmitted ==
    (pc = "returned" /\ ~IsNone(parsed)) =>
        \A k \in ListKeys :
            /\ IsNone(Val(parsed)[k]) <=> YamlKey(k) \notin DOMAIN data.doc
            /\ Get(data.doc, YamlKey(k)) = Some(<<>>) => Val(parsed)[k] = Some(<<>>)

----------------------------------------------------------------------------
(* main: a run of the tool on two bounded trees *)

MaxFiles == 2

\* the directories that hold a matching file: java-foo (library foo), bar
\* (a library the generation config does not hold), and input_dir itself
RelativePaths == {<<JavaPrefix \o Foo>>, <<Bar>>, <<>>}

Tmp == <<"t", "m", "p", "/">>

\* the contents of a matching file: not YAML, or a document whose
\* deep-remove-regex is ["tmp/"] or []
Contents ==
    <<File("invalid", EmptyMapping),
      File("yaml", [n \in {"api-name", "deep-remove-regex"} |->
                      IF n = "api-name" THEN Some(<<"a">>) ELSE Some(<<Tmp>>)]),
      File("yaml", [n \in {"api-name", "deep-remove-regex"} |->
                      IF n = "api-name" THEN Some(<<"a">>) ELSE Some(<<>>)])>>

\* the file at the same relative path under original_dir: 0 for none
OriginalAt(j) == IF j = 0 THEN File("missing", EmptyMapping) ELSE Contents[j]

\* the libraries of the generation config as GenerationConfig.from_yaml
\* loads them: foo, without a directive or with one that records an item
LoadedLibraries ==
    {[l \in {Foo} |-> None],
     [l \in {Foo} |-> Some([addition |-> None,
                            remove |-> Some([OwlbotYamlAdditionRemove EXCEPT
                                                !.deep_remove_regex = Some(<<<<"a">>>>)])])]}

Init ==
    /\ pc = "main"
    /\ args \in [diff : BOOLEAN, generation_config_path : {"none", "missing", "file"}]
    /\ \E n \in 0..MaxFiles :
         \E paths \in {f \in [1..n -> RelativePaths] : \A i, j \in 1..n : f[i] = f[j] => i = j},
            ins \in [1..n -> 1..Len(Contents)],
            origs \in [1..n -> 0..Len(Contents)] :
            tree = [i \in 1..n |-> [relative_path |-> paths[i],
                                    input |-> Contents[ins[i]],
                                    original |-> OriginalAt(origs[i])]]
    /\ IF args.generation_config_path = "file"
       THEN libraries0 \in LoadedLibraries
       ELSE libraries0 = <<>>
    /\ libraries = <<>>
    /\ idx = 1
    /\ diff_files = <<>>
    /\ total_files = 0
    /\ stdout = <<>>
    /\ written = None
    /\ raised = FALSE
    /\ NormIdle /\ DiffIdle /\ EqIdle /\ ParseIdle /\ UpdIdle

notMainVars == <<normVars, diffVars, eqVars, parseVars, updVars>>

\* main without --config: the call of compare_owlbot_yaml_files is commented
\* out, main returns
MainWithoutConfig ==
    /\ pc = "main"
    /\ args.generation_config_path = "none"
    /\ pc' = "done"
    /\ UNCHANGED <<raised, regVars, mainVars, notMainVars>>

\* main with a --config that is no file: FileNotFoundError
MainConfigNotFound ==
    /\ pc = "main"
    /\ args.generation_config_path = "missing"
    /\ raised' = TRUE
    /\ pc' = "raised"
    /\ UNCHANGED <<regVars, mainVars, notMainVars>>

\* main with --config: the generation config is loaded, the walk starts
MainLoadConfig ==
    /\ pc = "main"
    /\ args.generation_config_path = "file"
    /\ stdout' = Append(stdout, [msg |-> "Generation config path"])
    /\ libraries' = libraries0
    /\ pc' = "walk"
    /\ UNCHANGED <<raised, libraries0, args, tree, idx, diff_files, total_files, written,
                   notMainVars>>

\* one matching file of the walk
CompareFile ==
    /\ pc = "walk"
    /\ idx <= Len(tree)
    /\ LET st == compare_file(tree[idx], args.diff,
                              WalkState(diff_files, total_files, libraries, stdout, FALSE))
       IN /\ diff_files' = st.diff_files
          /\ total_files' = st.total_files
          /\ libraries' = st.libraries
          /\ stdout' = st.stdout
          /\ raised' = st.raised
          /\ pc' = IF st.raised THEN "raised" ELSE "walk"
    /\ idx' = idx + 1
    /\ UNCHANGED <<libraries0, args, tree, written, notMainVars>>

\* the end of compare_owlbot_yaml_files
PrintSummary ==
    /\ pc = "walk"
    /\ idx > Len(tree)
    /\ stdout' = stdout \o Summary(diff_files, total_files)
    /\ pc' = "write"
    /\ UNCHANGED <<raised, regVars, args, tree, idx, diff_files, total_files, written,
                   notMainVars>>

\* generation_config.write_object_to_yaml("config_augmented.yaml")
WriteConfig ==
    /\ pc = "write"
    /\ written' = Some(libraries)
    /\ pc' = "done"
    /\ UNCHANGED <<raised, regVars, args, tree, idx, diff_files, total_files, stdout,
                   notMainVars>>

Next ==
    \/ MainWithoutConfig
    \/ MainConfigNotFound
    \/ MainLoadConfig
    \/ CompareFile
    \/ PrintSummary
    \/ WriteConfig

Spec == Init /\ [][Next]_vars

\* whether the file parses into a record
Parses(file) == ~IsNone(read_yaml_as_object(file))

\* a pair of the walk whose two sides parse into unequal records
Differs(entry) ==
    /\ entry.original.kind # "missing"
    /\ Parses(entry.input) /\ Parses(entry.original)
    /\ ~OwlBotConfig_eq(Val(read_yaml_as_object(entry.input)),
                        Val(read_yaml_as_object(entry.original)))

\* every item of `items` is in the list l
AllIn(items, l) == \A i \in 1..Len(items) : \E j \in 1..Len(l) : l[j] = items[i]

\* the per-item mismatches of the pair are in the directive of its library
MismatchesRecorded(entry, libs) ==
    LET lib == extract_library_name_from_path(entry.relative_path)
        c1 == Val(read_yaml_as_object(entry.input))
        c2 == Val(read_yaml_as_object(entry.original))
    IN \A k \in ListKeys :
          (~IsNone(c1[k]) /\ ~IsNone(c2[k])) =>
              /\ AllIn(Unmatched(k, Val(c1[k]), Val(c2[k])), Recorded(libs[lib], "remove", k))
              /\ AllIn(Unmatched(k, Val(c2[k]), Val(c1[k])), Recorded(libs[lib], "addition", k))

\* C4: in a run with a generation config, the per-item mismatches of every
\* pair whose two sides parse and compare unequal are in the registry that
\* is persisted.
MismatchesPersisted ==
    (pc = "done" /\ args.generation_config_path = "file") =>
        \A i \in 1..Len(tree) :
            (/\ Differs(tree[i])
             /\ extract_library_name_from_path(tree[i].relative_path) \in DOMAIN libraries0)
            => MismatchesRecorded(tree[i], Val(written))

\* C5: a run without --config still compares the two trees and prints the
\* results.
ComparesWithoutConfig ==
    (pc = "done" /\ args.generation_config_path = "none") =>
        /\ total_files = Len(tree)
        /\ \E i \in 1..Len(stdout) : stdout[i].msg = "Total files compared"

\* a pair without a counterpart or with a side that is not YAML
Unreadable(entry) ==
    \/ entry.original.kind = "missing"
    \/ entry.input.kind = "invalid"
    \/ entry.original.kind = "invalid"

\* C6: a pair whose counterpart is missing or whose side fails to parse is
\* skipped with a warning: it is not added to diff_files, the registry is
\* not updated, nothing is raised and the walk goes on with the next pair.
SkipsUnreadable ==
    [][(pc = "walk" /\ idx <= Len(tree) /\ Unreadable(tree[idx])) =>
          /\ diff_files' = diff_files
          /\ libraries' = libraries
          /\ total_files' = total_files + 1
          /\ raised' = FALSE
          /\ pc' = "walk"
          /\ idx' = idx + 1
          /\ Len(stdout') > Len(stdout)
          /\ stdout'[Len(stdout')].path = tree[idx].relative_path
          /\ stdout'[Len(stdout')].msg \in {"Warning: Corresponding original file not found",
                                            "Warning: Could not compare YAML files"}]_vars

\* a run has skipped a pair that is not YAML and then reported the next one
SkipsUnreadableWitness ==
    /\ pc = "done"
    /\ Len(tree) = 2
    /\ tree[1].input.kind = "invalid" /\ tree[1].original.kind = "yaml"
    /\ diff_files = <<tree[2].relative_path>>
    /\ total_files = 2
    /\ \E i \in 1..Len(stdout) : stdout[i].msg = "Warning: Could not compare YAML files"

\* the two trees hold the same file at every relative path
IdenticalTrees ==
    \A i \in 1..Len(tree) :
        /\ tree[i].original.kind = tree[i].input.kind
        /\ tree[i].original.doc = tree[i].input.doc

\* C7: a run on two identical trees reports no file with differences and
\* leaves the registry as it was loaded.
IdenticalTreesNoChange ==
    (args.generation_config_path = "file" /\ IdenticalTrees) =>
        /\ diff_files = <<>>
        /\ ~raised
        /\ pc # "main" => libraries = libraries0
        /\ pc \in {"write", "done"} =>
              \E i \in 1..Len(stdout) : stdout[i].msg = "No YAML differences found."
        /\ pc = "done" => written = Some(libraries0)

\* a run on two identical trees, one file with an empty list, has ended
IdenticalTreesWitness ==
    /\ pc = "done"
    /\ IdenticalTrees
    /\ Len(tree) = 2
    /\ tree[1].input = Contents[3]
    /\ total_files = 2
    /\ ~IsNone(libraries0[Foo])
    /\ written = Some(libraries0)

----------------------------------------------------------------------------
(* OwlBotConfig.__eq__ and generate_diff applied to the same pair of records,
   as compare_owlbot_yaml_files applies them *)

InitCompareDiff ==
    /\ pc = "eq"
    /\ \/ config1 \in SmallConfigs /\ config2 \in SmallConfigs
       \/ \E k \in ListKeys : config1 \in ConfigsVarying(k) /\ config2 \in ConfigsVarying(k)
    /\ equal = None
    /\ library_name = Foo
    /\ libraries = [l \in {Foo} |-> None]
    /\ libraries0 = libraries
    /\ key = <<>> /\ list1 = <<>> /\ list2 = <<>>
    /\ diff_lines = <<>>
    /\ raised = FALSE
    /\ NormIdle /\ ParseIdle /\ UpdIdle /\ MainIdle

\* config1 != config2
CompareConfigs ==
    /\ pc = "eq"
    /\ equal' = Some(OwlBotConfig_eq(config1, config2))
    /\ pc' = "generate_diff"
    /\ UNCHANGED <<config1, config2, raised, normVars, diffVars, regVars, parseVars,
                   updVars, mainVars>>

\* generate_diff(config1, config2, library_name, generation_config)
GenerateDiff ==
    /\ pc = "generate_diff"
    /\ LET st == generate_diff(config1, config2, library_name, libraries)
       IN /\ diff_lines' = st.diff_lines
          /\ libraries' = st.libraries
          /\ raised' = st.raised
          /\ pc' = IF st.raised THEN "raised" ELSE "returned"
    /\ UNCHANGED <<key, list1, list2, library_name, libraries0, eqVars, normVars,
                   parseVars, updVars, mainVars>>

NextCompareDiff == CompareConfigs \/ GenerateDiff

SpecCompareDiff == InitCompareDiff /\ [][NextCompareDiff]_vars

\* C11: two records compare equal exactly when generate_diff emits no line
\* for them, also when a list holds an equivalent item more than once.
EqualIffNoDiffLine ==
    pc = "returned" => (Val(equal) <=> diff_lines = <<>>)

====
